---- MODULE Spec2Model ----
(***************************************************************************)
(* Model of the wallet Node of reflector.go (src/store/http.go, package    *)
(* wallet, lines 162-440): a multiplexed request/response client over one  *)
(* transport, with three background goroutines under a stop.Group.         *)
(*                                                                         *)
(* Goroutines are modelled by program counters.  A goroutine blocked in a  *)
(* select is woken by the first channel event that makes one of its cases  *)
(* ready (the Go runtime picks the case of the event that dequeues the     *)
(* waiter); a select evaluated while several cases are ready picks any of  *)
(* them.                                                                   *)
(***************************************************************************)
EXTENDS Integers, Sequences, FiniteSets, TLC

\* ---------------------------------------------------------------- bounds
\* Number of request() invocations made by callers.
NumCalls == 3
\* The id counter is a uint32 (line 200); the model keeps it modulo IdSpace
\* so that wraparound is reachable.
IdSpace == 2
\* Longest address list handed to Connect.
MaxAddrs == 2
\* Most request() calls running at the same time.
MaxInFlight == 2
\* Number of push subscriber channels.
NumSubs == 2
\* Most frames the server sends that answer no request.
MaxPush == 2
\* Most errors the transport puts on its error stream.
MaxErrs == 2
\* Number of DiskStore.Get calls made.
NumGets == 31

Calls == 1..NumCalls
Ids == 0..(IdSpace - 1)
Addrs == 1..MaxAddrs
Subs == 1..NumSubs

\* Capacity of a push subscriber channel (make(chan []byte, 1), line 385).
SubCap == 1

\* const maxConcurrentChecks = 30 (DiskStore).
maxConcurrentChecks == 30

\* The positions of a DiskStore.Get call that has read its blob: before the
\* Load of line 88, between that Load and the Add of line 89, and after the
\* Add, hashing the blob.
GetPcs == {"check", "add", "hash"}

\* Method names, error codes and error messages that frames carry.
Methods == {"M", "N"}
Codes == {0, 7}
Msgs == {"", "m"}

\* ------------------------------------------------------------ null values
NoTransport == 0
NoChan == 0
NoID == -1

\* Outcomes of one NewTransport(addr, config) call, as Connect classifies them.
Outcomes == {"ok", "timeout", "nosuchhost", "other"}

\* The body of an inbound frame.  shape "ok": a JSON object without an error
\* field; "A": error {code, msg}; "B": error {code, message {ncode, nmsg}};
\* "syntax": not JSON; "type": JSON whose error code is not a number, which
\* neither envelope accepts.
NoBody == [shape |-> "none", code |-> 0, msg |-> "", ncode |-> 0, nmsg |-> ""]
OkBody == [shape |-> "ok", code |-> 0, msg |-> "", ncode |-> 0, nmsg |-> ""]
ErrBody == [shape |-> "A", code |-> 7, msg |-> "m", ncode |-> 0, nmsg |-> ""]
ABodies == {[shape |-> "A", code |-> c, msg |-> m, ncode |-> 0, nmsg |-> ""] :
                c \in Codes, m \in Msgs}
BBodies == {[shape |-> "B", code |-> 7, msg |-> "", ncode |-> c, nmsg |-> m] :
                c \in Codes, m \in Msgs}
BadBodies == {[shape |-> sh, code |-> 0, msg |-> "", ncode |-> 0, nmsg |-> ""] :
                sh \in {"syntax", "type"}}

\* response{data, err}: kind "ok" carries data (the frame's bytes), "err" a
\* server error with text "code: msg", "decode" a decoding error, "timeout"
\* ErrTimeout.  For kind "ok", code is the error code inside the data.  ans
\* names the call whose request frame the server answered (0 for none) and
\* from is the body of the frame the response was built from; the program
\* reads neither.
NoResponse == [kind |-> "none", code |-> 0, msg |-> "", ans |-> 0, from |-> NoBody]
TimeoutResponse == [kind |-> "timeout", code |-> 0, msg |-> "", ans |-> 0, from |-> NoBody]

VARIABLES
    transport,   \* n.transport: NoTransport (nil) or the address connected to
    torn,        \* transport.Shutdown() has been called
    nextID,      \* n.nextID
    handlers,    \* n.handlers: id -> response channel (named by its call), NoChan if absent
    chan,        \* chan[c]: contents of the 1-slot channel made by call c
    grpClosed,   \* n.grp.Ch() is closed
    grpWg,       \* n.grp WaitGroup counter
    connPc,      \* position of the Connect call in progress
    addrs,       \* Connect: the shuffled address list
    dialled,     \* Connect: <<address, outcome>> of every NewTransport call made
    connErr,     \* Connect: the error being returned
    shutPc,      \* position of the Shutdown call
    shutAddr,    \* Shutdown: transport seen at line 280
    blocked,     \* the calls parked in their select when Shutdown closed the channel (history)
    teardownPc,  \* goroutine of lines 257-261
    relayPc,     \* goroutine of lines 264-267 (handleErrors)
    listenPc,    \* goroutine of lines 270-273 (listen)
    lisR,        \* listen: r, the response built from the current frame
    lisC,        \* listen: c, the channel found for msg.ID
    pc,          \* pc[c]: position of request() call c
    id,          \* id[c]: msg.ID of call c
    branch,      \* branch[c]: how call c was resolved
    r,           \* r[c]: the response call c holds after the select
    ret,         \* ret[c]: error returned by call c
    before,      \* before[c]: the calls that had returned when c read its id (history)
    sent,        \* request frames the server has received and not answered
    wire,        \* transport.Responses(): inbound frames not yet read
    pushHandlers, \* n.pushHandlers: method -> list of subscriber channels
    subChan,     \* subChan[s]: contents of subscriber channel s
    pushed,      \* number of frames the server has sent that answer no request
    errs,        \* transport.Errors(): number of errors not yet read
    logged,      \* number of errors n.err has logged
    concurrentChecks, \* d.concurrentChecks
    gets,        \* number of DiskStore.Get calls made so far
    getAt        \* getAt[p]: number of Get calls that are at position p

vars == <<transport, torn, nextID, handlers, chan, grpClosed, grpWg, connPc,
          addrs, dialled, connErr, shutPc, shutAddr, blocked, teardownPc, relayPc,
          listenPc, lisR, lisC, pc, id, branch, r, ret, before, sent, wire,
          pushHandlers, subChan, pushed, errs, logged, concurrentChecks, gets, getAt>>

nodeVars == <<transport, torn, nextID, handlers, chan, grpClosed, grpWg>>
connVars == <<connPc, addrs, dialled, connErr>>
shutVars == <<shutPc, shutAddr, blocked>>
workerVars == <<teardownPc, relayPc, listenPc, lisR, lisC>>
callVars == <<pc, id, branch, r, ret, before>>
netVars == <<sent, wire>>
pushVars == <<pushHandlers, subChan, pushed>>
errVars == <<errs, logged>>
diskVars == <<concurrentChecks, gets, getAt>>

\* NewNode (lines 213-222): no transport, counter 0, empty maps, fresh group.
Init ==
    /\ transport = NoTransport
    /\ torn = FALSE
    /\ nextID = 0
    /\ handlers = [i \in Ids |-> NoChan]
    /\ chan = [c \in Calls |-> <<>>]
    /\ grpClosed = FALSE
    /\ grpWg = 0
    /\ connPc = "idle"
    /\ addrs = <<>>
    /\ dialled = <<>>
    /\ connErr = "none"
    /\ shutPc = "idle"
    /\ shutAddr = NoTransport
    /\ blocked = {}
    /\ teardownPc = "none"
    /\ relayPc = "none"
    /\ listenPc = "none"
    /\ lisR = NoResponse
    /\ lisC = NoChan
    /\ pc = [c \in Calls |-> "idle"]
    /\ id = [c \in Calls |-> NoID]
    /\ branch = [c \in Calls |-> "none"]
    /\ r = [c \in Calls |-> NoResponse]
    /\ ret = [c \in Calls |-> "none"]
    /\ before = [c \in Calls |-> {}]
    /\ sent = {}
    /\ wire = <<>>
    /\ pushHandlers = [m \in Methods |-> <<>>]
    /\ subChan = [s \in Subs |-> <<>>]
    /\ pushed = 0
    /\ errs = 0
    /\ logged = 0
    /\ concurrentChecks = 0
    /\ gets = 0
    /\ getAt = [p \in GetPcs |-> 0]


\* ------------------------------------------------------------- Connect
\* rand.Shuffle (line 231): every rearrangement of the list.
Shuffles(list) ==
    {s \in [1..Len(list) -> Addrs] :
        \E p \in [1..Len(list) -> 1..Len(list)] :
            /\ \A i, j \in 1..Len(list) : i # j => p[i] # p[j]
            /\ \A i \in 1..Len(list) : s[i] = list[p[i]]}

\* The address lists a caller may pass: non-empty, at most MaxAddrs long.
AddrLists == UNION {[1..n -> Addrs] : n \in 1..MaxAddrs}

\* NewTransport(addr, config): the transport it returns with outcome o.
NewTransport(addr, o) == IF o = "ok" THEN addr ELSE NoTransport

\* Variant of AlreadyConnected: the guard of line 226 is missing.
AlreadyConnectedUnchecked == FALSE

\* Line 226: n.transport != nil.
AlreadyConnected == transport # NoTransport

\* Variant of Continuable: the loop continues after every failure.
ContinuableAlways(o) == o # "ok"

\* Lines 240-246: the failures after which the loop continues.
Continuable(o) == o \in {"timeout", "nosuchhost"}

\* Lines 226-228: a node that has a transport refuses to connect again.
ConnectRejected ==
    /\ connPc = "idle"
    /\ shutPc # "wait"
    /\ AlreadyConnected
    /\ connErr' = "ErrNodeConnected"
    /\ connPc' = "return"
    /\ UNCHANGED <<nodeVars, addrs, dialled, shutVars, workerVars, callVars, netVars, pushVars, errVars, diskVars>>

\* Lines 226-231: the guard passes and the list is shuffled.
ConnectBegin(list) ==
    /\ connPc = "idle"
    /\ shutPc # "wait"
    /\ ~AlreadyConnected
    /\ addrs' \in Shuffles(list)
    /\ dialled' = <<>>
    /\ connPc' = "dial"
    /\ UNCHANGED <<nodeVars, connErr, shutVars, workerVars, callVars, netVars, pushVars, errVars, diskVars>>

\* Lines 235-248: one iteration of the loop, dialling the next address.
ConnectDial(o) ==
    /\ connPc = "dial"
    /\ Len(dialled) < Len(addrs)
    /\ LET a == addrs[Len(dialled) + 1] IN
         /\ transport' = NewTransport(a, o)
         /\ dialled' = Append(dialled, <<a, o>>)
         /\ IF o = "ok"
              THEN connPc' = "check" /\ UNCHANGED connErr
              ELSE IF Continuable(o)
                THEN /\ connPc' = IF Len(dialled) + 1 = Len(addrs) THEN "check" ELSE "dial"
                     /\ UNCHANGED connErr
                ELSE connPc' = "return" /\ connErr' = "ErrOther"
    /\ UNCHANGED <<torn, nextID, handlers, chan, grpClosed, grpWg, addrs,
                   shutVars, workerVars, callVars, netVars, pushVars, errVars, diskVars>>

\* Variant of ConnectCheck: the test of line 250 is missing.
ConnectCheckMissing ==
    /\ connPc = "check"
    /\ connPc' = "spawn"
    /\ UNCHANGED <<nodeVars, addrs, dialled, connErr, shutVars, workerVars, callVars, netVars, pushVars, errVars, diskVars>>

\* Lines 250-252: after the loop.
ConnectCheck ==
    /\ connPc = "check"
    /\ IF transport = NoTransport
         THEN connPc' = "return" /\ connErr' = "ErrConnectFailed"
         ELSE connPc' = "spawn" /\ UNCHANGED connErr
    /\ UNCHANGED <<nodeVars, addrs, dialled, shutVars, workerVars, callVars, netVars, pushVars, errVars, diskVars>>

\* Lines 256-275: the three goroutines are added to the group and started.
ConnectSpawn ==
    /\ connPc = "spawn"
    /\ grpWg' = grpWg + 3
    /\ teardownPc' = "wait"
    /\ relayPc' = "wait"
    /\ listenPc' = "poll"
    /\ connErr' = "nil"
    /\ connPc' = "return"
    /\ UNCHANGED <<transport, torn, nextID, handlers, chan, grpClosed, addrs,
                   dialled, shutVars, lisR, lisC, callVars, netVars, pushVars, errVars, diskVars>>

\* The return statements of Connect (lines 227, 247, 251, 275).
ConnectReturn ==
    /\ connPc = "return"
    /\ connPc' = "idle"
    /\ addrs' = <<>>
    /\ dialled' = <<>>
    /\ connErr' = "none"
    /\ UNCHANGED <<nodeVars, shutVars, workerVars, callVars, netVars, pushVars, errVars, diskVars>>

\* ------------------------------------------------------------ Shutdown
\* Variant of WokenByClose: the select has no case for n.grp.Ch().
WokenByCloseNone == {}

\* The request() calls parked in the select of lines 423-429, which the
\* close of n.grp.Ch() wakes through the case of line 424.
WokenByClose == {c \in Calls : pc[c] = "parked"}

\* Lines 279-284: StopAndWait closes the group's channel, then waits.
ShutdownCall ==
    /\ shutPc = "idle"
    /\ connPc = "idle"
    /\ shutAddr' = transport
    /\ blocked' = {c \in Calls : pc[c] = "parked"}
    /\ grpClosed' = TRUE
    /\ pc' = [c \in Calls |-> IF c \in WokenByClose THEN "resolved" ELSE pc[c]]
    /\ branch' = [c \in Calls |-> IF c \in WokenByClose THEN "shutdown" ELSE branch[c]]
    /\ shutPc' = "wait"
    /\ UNCHANGED <<transport, torn, nextID, handlers, chan, grpWg, connVars,
                   workerVars, id, r, ret, before, netVars, pushVars, errVars, diskVars>>

\* Variant of WaitDone: Stop is called in place of StopAndWait.
WaitSkipped == TRUE

\* StopAndWait's Wait (line 284): the WaitGroup counter is zero.
WaitDone == grpWg = 0

\* Lines 284-286: Shutdown returns.
ShutdownReturn ==
    /\ shutPc = "wait"
    /\ WaitDone
    /\ shutPc' = "returned"
    /\ UNCHANGED <<nodeVars, connVars, shutAddr, blocked, workerVars, callVars, netVars, pushVars, errVars, diskVars>>

\* ------------------------------------------------- background goroutines
\* Lines 259-260: the group's channel is closed; tear the transport down.
TeardownShutdown ==
    /\ teardownPc = "wait"
    /\ grpClosed
    /\ torn' = TRUE
    /\ teardownPc' = "closing"
    /\ UNCHANGED <<transport, nextID, handlers, chan, grpClosed, grpWg, connVars,
                   shutVars, relayPc, listenPc, lisR, lisC, callVars, netVars, pushVars, errVars, diskVars>>

\* Line 258: the deferred n.grp.Done().
TeardownDone ==
    /\ teardownPc = "closing"
    /\ teardownPc' = "exited"
    /\ grpWg' = grpWg - 1
    /\ UNCHANGED <<transport, torn, nextID, handlers, chan, grpClosed, connVars,
                   shutVars, relayPc, listenPc, lisR, lisC, callVars, netVars, pushVars, errVars, diskVars>>

\* The transport puts an error on its error stream.
TransportError ==
    /\ transport # NoTransport
    /\ ~torn
    /\ errs + logged < MaxErrs
    /\ errs' = errs + 1
    /\ UNCHANGED <<nodeVars, connVars, shutVars, workerVars, callVars, netVars, pushVars, logged,
                   diskVars>>

\* Variant of RelayReport: an error from the stream stops the node.
RelayReportFatal ==
    /\ relayPc = "wait"
    /\ errs > 0
    /\ errs' = errs - 1
    /\ logged' = logged + 1
    /\ grpClosed' = TRUE
    /\ UNCHANGED <<transport, torn, nextID, handlers, chan, grpWg, connVars, shutVars,
                   workerVars, callVars, netVars, pushVars, diskVars>>

\* Lines 293-294 and 300-303: a transport error is received and logged.
RelayReport ==
    /\ relayPc = "wait"
    /\ errs > 0
    /\ errs' = errs - 1
    /\ logged' = logged + 1
    /\ UNCHANGED <<nodeVars, connVars, shutVars, workerVars, callVars, netVars, pushVars,
                   diskVars>>

\* Lines 291-292 and 265: handleErrors returns on the closed channel.
RelayExit ==
    /\ relayPc = "wait"
    /\ grpClosed
    /\ relayPc' = "exited"
    /\ grpWg' = grpWg - 1
    /\ UNCHANGED <<transport, torn, nextID, handlers, chan, grpClosed, connVars,
                   shutVars, teardownPc, listenPc, lisR, lisC, callVars, netVars, pushVars, errVars, diskVars>>


\* ---------------------------------------------------------------- listen
\* Line 339: json.Unmarshal into msg, whose error message is a string.  Bytes
\* that are not JSON fill nothing; a value of the wrong type is skipped, the
\* other fields are filled and an error is returned.
Unmarshal1(f) ==
    CASE f.body.shape = "syntax" ->
           [err |-> TRUE, ID |-> 0, Method |-> "", Code |-> 0, Message |-> ""]
      [] f.body.shape = "type" ->
           [err |-> TRUE, ID |-> f.id, Method |-> f.method, Code |-> 0, Message |-> ""]
      [] f.body.shape = "B" ->
           [err |-> TRUE, ID |-> f.id, Method |-> f.method, Code |-> f.body.code,
            Message |-> ""]
      [] OTHER ->
           [err |-> FALSE, ID |-> f.id, Method |-> f.method, Code |-> f.body.code,
            Message |-> f.body.msg]

\* Line 343: json.Unmarshal into msg2, whose error message is an object with a
\* code and a message.  Code and Message are those of the inner object.
Unmarshal2(f) ==
    CASE f.body.shape = "syntax" ->
           [err |-> TRUE, ID |-> 0, Method |-> "", Code |-> 0, Message |-> ""]
      [] f.body.shape \in {"type", "A"} ->
           [err |-> TRUE, ID |-> f.id, Method |-> f.method, Code |-> 0, Message |-> ""]
      [] OTHER ->
           [err |-> FALSE, ID |-> f.id, Method |-> f.method, Code |-> f.body.ncode,
            Message |-> f.body.nmsg]

\* Variant of Decode: the second envelope is never tried.
DecodeFirstOnly(f) == Unmarshal1(f)

\* Lines 339-349: msg after both attempts; err is the error that is left.
Decode(f) ==
    IF Unmarshal1(f).err /\ ~Unmarshal2(f).err THEN Unmarshal2(f) ELSE Unmarshal1(f)

\* Lines 351-358: the response built from a decoded frame.
Classify(f) ==
    LET msg == Decode(f) IN
      IF msg.err
        THEN [kind |-> "decode", code |-> 0, msg |-> "", ans |-> f.ans, from |-> f.body]
        ELSE IF msg.Message # ""
          THEN [kind |-> "err", code |-> msg.Code, msg |-> msg.Message, ans |-> f.ans,
                from |-> f.body]
          ELSE [kind |-> "ok", code |-> msg.Code, msg |-> "", ans |-> f.ans,
                from |-> f.body]

\* Lines 365-370: handler <- r with a default case, for each channel of the
\* list in turn; a channel that is full is passed over.
RECURSIVE Offer(_, _, _)
Offer(list, resp, ch) ==
    IF list = <<>>
      THEN ch
      ELSE LET s == Head(list) IN
             Offer(Tail(list), resp,
                   IF Len(ch[s]) < SubCap THEN [ch EXCEPT ![s] = Append(@, resp)] ELSE ch)

\* Variant of FanOut: the channels of every method are offered the response.
FanOutAll(method, resp) ==
    IF method # ""
      THEN Offer(pushHandlers["M"] \o pushHandlers["N"], resp, subChan)
      ELSE subChan

\* Lines 360-371: the subscriber channels after the fan-out of a frame.
FanOut(method, resp) ==
    IF method # "" /\ method \in DOMAIN pushHandlers
      THEN Offer(pushHandlers[method], resp, subChan)
      ELSE subChan

\* Lines 308-312: the non-blocking look at the group's channel.
ListenPoll ==
    /\ listenPc = "poll"
    /\ IF grpClosed
         THEN listenPc' = "exited" /\ grpWg' = grpWg - 1
         ELSE listenPc' = "recv" /\ UNCHANGED grpWg
    /\ UNCHANGED <<transport, torn, nextID, handlers, chan, grpClosed, connVars,
                   shutVars, teardownPc, relayPc, lisR, lisC, callVars, netVars, pushVars, errVars, diskVars>>

\* Lines 315-316: the blocking select returns on the closed channel.
ListenStop ==
    /\ listenPc = "recv"
    /\ grpClosed
    /\ listenPc' = "exited"
    /\ grpWg' = grpWg - 1
    /\ UNCHANGED <<transport, torn, nextID, handlers, chan, grpClosed, connVars,
                   shutVars, teardownPc, relayPc, lisR, lisC, callVars, netVars, pushVars, errVars, diskVars>>

\* Lines 317-376: the next frame is read, decoded and classified, and the
\* channel registered for its id is looked up.
ListenFrame ==
    /\ listenPc = "recv"
    /\ wire # <<>>
    /\ wire' = Tail(wire)
    /\ LET f == Head(wire)
           msg == Decode(f)
       IN /\ subChan' = FanOut(msg.Method, Classify(f))
          /\ IF handlers[msg.ID] # NoChan
               THEN /\ lisR' = Classify(f)
                    /\ lisC' = handlers[msg.ID]
                    /\ listenPc' = "deliver"
               ELSE /\ listenPc' = "poll"
                    /\ UNCHANGED <<lisR, lisC>>
    /\ UNCHANGED <<nodeVars, connVars, shutVars, teardownPc, relayPc, callVars, sent,
                   pushHandlers, pushed, errVars, diskVars>>

\* Line 377: c <- r.  A call parked in its select takes the value at once;
\* otherwise the value goes into the channel's one slot, if it is free.
ListenDeliver ==
    /\ listenPc = "deliver"
    /\ IF pc[lisC] = "parked"
         THEN /\ pc' = [pc EXCEPT ![lisC] = "resolved"]
              /\ branch' = [branch EXCEPT ![lisC] = "response"]
              /\ r' = [r EXCEPT ![lisC] = lisR]
              /\ UNCHANGED chan
         ELSE /\ chan[lisC] = <<>>
              /\ chan' = [chan EXCEPT ![lisC] = <<lisR>>]
              /\ UNCHANGED <<pc, branch, r>>
    /\ listenPc' = "poll"
    /\ lisR' = NoResponse
    /\ lisC' = NoChan
    /\ UNCHANGED <<transport, torn, nextID, handlers, grpClosed, grpWg, connVars,
                   shutVars, teardownPc, relayPc, id, ret, before, netVars, pushVars, errVars, diskVars>>

\* --------------------------------------------------------------- request
\* Line 399: ID: n.nextID.Load().
ReqLoad(c) ==
    /\ pc[c] = "idle"
    /\ c > 1 => pc[c - 1] # "idle"
    /\ Cardinality({d \in Calls : pc[d] \notin {"idle", "done"}}) < MaxInFlight
    /\ transport # NoTransport
    /\ connPc = "idle"
    /\ id' = [id EXCEPT ![c] = nextID]
    /\ pc' = [pc EXCEPT ![c] = "inc"]
    /\ before' = [before EXCEPT ![c] = {d \in Calls : pc[d] = "done"}]
    /\ UNCHANGED <<nodeVars, connVars, shutVars, workerVars, branch, r, ret, netVars, pushVars, errVars, diskVars>>

\* Variant of ReqInc: the counter is not incremented.
ReqIncMissing(c) ==
    /\ pc[c] = "inc"
    /\ pc' = [pc EXCEPT ![c] = "reg"]
    /\ UNCHANGED <<nodeVars, connVars, shutVars, workerVars, id, branch, r, ret, before,
                   netVars, pushVars, errVars, diskVars>>

\* Line 403: n.nextID.Inc(), on a uint32.
ReqInc(c) ==
    /\ pc[c] = "inc"
    /\ nextID' = (nextID + 1) % IdSpace
    /\ pc' = [pc EXCEPT ![c] = "reg"]
    /\ UNCHANGED <<transport, torn, handlers, chan, grpClosed, grpWg, connVars,
                   shutVars, workerVars, id, branch, r, ret, before, netVars, pushVars, errVars, diskVars>>

\* Lines 411-415: the channel is made and registered under msg.ID.
ReqRegister(c) ==
    /\ pc[c] = "reg"
    /\ handlers' = [handlers EXCEPT ![id[c]] = c]
    /\ pc' = [pc EXCEPT ![c] = "send"]
    /\ UNCHANGED <<transport, torn, nextID, chan, grpClosed, grpWg, connVars,
                   shutVars, workerVars, id, branch, r, ret, before, netVars, pushVars, errVars, diskVars>>

\* Lines 417-420, Send fails: the call returns the error.
ReqSendFail(c) ==
    /\ pc[c] = "send"
    /\ pc' = [pc EXCEPT ![c] = "done"]
    /\ branch' = [branch EXCEPT ![c] = "sendfail"]
    /\ ret' = [ret EXCEPT ![c] = "ErrSend"]
    /\ UNCHANGED <<nodeVars, connVars, shutVars, workerVars, id, r, before, netVars, pushVars, errVars, diskVars>>

\* Line 417, Send succeeds: the frame reaches the server.
ReqSend(c) ==
    /\ pc[c] = "send"
    /\ ~torn
    /\ sent' = sent \cup {[id |-> id[c], ans |-> c]}
    /\ pc' = [pc EXCEPT ![c] = "select"]
    /\ UNCHANGED <<nodeVars, connVars, shutVars, workerVars, id, branch, r, ret, before, wire,
                   pushVars, errVars, diskVars>>

\* Lines 423-429, entering the select: a case that is ready is taken (any of
\* them when both are); with none ready the call parks.  The timer of line
\* 427 starts here, so its case is not ready yet.
ReqSelect(c) ==
    /\ pc[c] = "select"
    /\ \/ /\ grpClosed
          /\ pc' = [pc EXCEPT ![c] = "resolved"]
          /\ branch' = [branch EXCEPT ![c] = "shutdown"]
          /\ UNCHANGED <<r, chan>>
       \/ /\ chan[c] # <<>>
          /\ pc' = [pc EXCEPT ![c] = "resolved"]
          /\ branch' = [branch EXCEPT ![c] = "response"]
          /\ r' = [r EXCEPT ![c] = Head(chan[c])]
          /\ chan' = [chan EXCEPT ![c] = <<>>]
       \/ /\ ~grpClosed
          /\ chan[c] = <<>>
          /\ pc' = [pc EXCEPT ![c] = "parked"]
          /\ UNCHANGED <<branch, r, chan>>
    /\ UNCHANGED <<transport, torn, nextID, handlers, grpClosed, grpWg, connVars,
                   shutVars, workerVars, id, ret, before, netVars, pushVars, errVars, diskVars>>

\* Lines 427-428: the timer fires while the call is parked.
ReqTimeout(c) ==
    /\ pc[c] = "parked"
    /\ pc' = [pc EXCEPT ![c] = "resolved"]
    /\ branch' = [branch EXCEPT ![c] = "timeout"]
    /\ r' = [r EXCEPT ![c] = TimeoutResponse]
    /\ UNCHANGED <<nodeVars, connVars, shutVars, workerVars, id, ret, before, netVars, pushVars, errVars, diskVars>>

\* Lines 424-425: case <-n.grp.Ch(): return nil.
ReqReturnShutdown(c) ==
    /\ pc[c] = "resolved"
    /\ branch[c] = "shutdown"
    /\ pc' = [pc EXCEPT ![c] = "done"]
    /\ ret' = [ret EXCEPT ![c] = "nil"]
    /\ UNCHANGED <<nodeVars, connVars, shutVars, workerVars, id, branch, r, before, netVars, pushVars, errVars, diskVars>>

\* Lines 435-439: the error request() returns for the response it holds.
ErrorOf(resp) ==
    CASE resp.kind = "timeout" -> "ErrTimeout"
      [] resp.kind = "err" -> "ErrServer"
      [] resp.kind = "decode" -> "ErrDecode"
      [] OTHER -> "nil"

\* Variant of ReqCleanup: the delete of line 432 is missing.
ReqCleanupNoDelete(c) ==
    /\ pc[c] = "resolved"
    /\ branch[c] \in {"response", "timeout"}
    /\ pc' = [pc EXCEPT ![c] = "done"]
    /\ ret' = [ret EXCEPT ![c] = ErrorOf(r[c])]
    /\ UNCHANGED <<nodeVars, connVars, shutVars, workerVars, id, branch, r, before, netVars, pushVars, errVars, diskVars>>

\* Lines 431-439: the entry of msg.ID is deleted and the call returns.
ReqCleanup(c) ==
    /\ pc[c] = "resolved"
    /\ branch[c] \in {"response", "timeout"}
    /\ handlers' = [handlers EXCEPT ![id[c]] = NoChan]
    /\ pc' = [pc EXCEPT ![c] = "done"]
    /\ ret' = [ret EXCEPT ![c] = ErrorOf(r[c])]
    /\ UNCHANGED <<transport, torn, nextID, chan, grpClosed, grpWg, connVars,
                   shutVars, workerVars, id, branch, r, before, netVars, pushVars, errVars, diskVars>>

\* ---------------------------------------------------------------- server
\* The kinds of frame the server answers a request with: a result or an
\* error in the first envelope.
FrameKinds == {OkBody, ErrBody}

\* Every body a frame can have.
AllBodies == {OkBody} \cup ABodies \cup BBodies \cup BadBodies

\* The server answers one of the requests it holds, in any order; the frame
\* carries the request's id.
ServerRespond(q, k) ==
    /\ q \in sent
    /\ ~torn
    /\ sent' = sent \ {q}
    /\ wire' = Append(wire, [id |-> q.id, ans |-> q.ans, method |-> "", body |-> k])
    /\ UNCHANGED <<nodeVars, connVars, shutVars, workerVars, callVars, pushVars, errVars, diskVars>>

\* The server sends a frame that answers no request: a notification for
\* method m, or a frame that repeats id i.
ServerPush(i, m, k) ==
    /\ transport # NoTransport
    /\ ~torn
    /\ pushed < MaxPush
    /\ pushed' = pushed + 1
    /\ wire' = Append(wire, [id |-> i, ans |-> 0, method |-> m, body |-> k])
    /\ UNCHANGED <<nodeVars, connVars, shutVars, workerVars, callVars, sent,
                   pushHandlers, subChan, errVars, diskVars>>

\* ----------------------------------------------------------- subscribers
\* The channels that are in some list of pushHandlers.
Subscribed == {s \in Subs : \E m \in Methods, i \in 1..NumSubs :
                               i <= Len(pushHandlers[m]) /\ pushHandlers[m][i] = s}

\* Lines 384-390: a new channel is appended to the list of method m.
Subscribe(s, m) ==
    /\ s \notin Subscribed
    /\ s > 1 => (s - 1) \in Subscribed
    /\ pushHandlers' = [pushHandlers EXCEPT ![m] = Append(@, s)]
    /\ UNCHANGED <<nodeVars, connVars, shutVars, workerVars, callVars, netVars,
                   subChan, pushed, errVars, diskVars>>

\* The subscriber takes the next response from its channel.
SubRead(s) ==
    /\ subChan[s] # <<>>
    /\ subChan' = [subChan EXCEPT ![s] = Tail(@)]
    /\ UNCHANGED <<nodeVars, connVars, shutVars, workerVars, callVars, netVars,
                   pushHandlers, pushed, errVars, diskVars>>

\* ------------------------------------------------------------- DiskStore
\* The variables of the node, which the disk store does not touch.
walletVars == <<nodeVars, connVars, shutVars, workerVars, callVars, netVars, pushVars, errVars>>

\* The Get calls that have not returned.
Running == getAt["check"] + getAt["add"] + getAt["hash"]

\* Lines 72-84: a goroutine calls Get; initOnce or ReadFile fails and the
\* call returns, or the blob is read.
GetCall(ok) ==
    /\ gets < NumGets
    /\ gets' = gets + 1
    /\ getAt' = IF ok THEN [getAt EXCEPT !["check"] = @ + 1] ELSE getAt
    /\ UNCHANGED <<walletVars, concurrentChecks>>

\* Line 88: d.concurrentChecks.Load() < maxConcurrentChecks; when it is not,
\* the blob is returned unchecked (line 104).
GetLoad ==
    /\ getAt["check"] > 0
    /\ IF concurrentChecks < maxConcurrentChecks
         THEN getAt' = [getAt EXCEPT !["check"] = @ - 1, !["add"] = @ + 1]
         ELSE getAt' = [getAt EXCEPT !["check"] = @ - 1]
    /\ UNCHANGED <<walletVars, concurrentChecks, gets>>

\* Line 89: d.concurrentChecks.Add(1).
GetAdd ==
    /\ getAt["add"] > 0
    /\ getAt' = [getAt EXCEPT !["add"] = @ - 1, !["hash"] = @ + 1]
    /\ concurrentChecks' = concurrentChecks + 1
    /\ UNCHANGED <<walletVars, gets>>

\* Lines 90-104: the blob is hashed and the call returns, the blob or the
\* error of a broken blob; the deferred Sub(1) runs on every return.
GetChecked ==
    /\ getAt["hash"] > 0
    /\ getAt' = [getAt EXCEPT !["hash"] = @ - 1]
    /\ concurrentChecks' = concurrentChecks - 1
    /\ UNCHANGED <<walletVars, gets>>

\* ------------------------------------------------------- specifications
\* One step of request() call c.
Request(c) ==
    \/ ReqLoad(c)
    \/ ReqInc(c)
    \/ ReqRegister(c)
    \/ ReqSendFail(c)
    \/ ReqSend(c)
    \/ ReqSelect(c)
    \/ ReqTimeout(c)
    \/ ReqReturnShutdown(c)
    \/ ReqCleanup(c)

\* The node, as many callers as may run at once, the server, and Shutdown.
Next ==
    \/ ConnectRejected
    \/ \E list \in AddrLists : ConnectBegin(list)
    \/ \E o \in Outcomes : ConnectDial(o)
    \/ ConnectCheck
    \/ ConnectSpawn
    \/ ConnectReturn
    \/ ShutdownCall
    \/ ShutdownReturn
    \/ TeardownShutdown
    \/ TeardownDone
    \/ RelayExit
    \/ ListenPoll
    \/ ListenStop
    \/ ListenFrame
    \/ ListenDeliver
    \/ \E c \in 1..MaxInFlight : Request(c)
    \/ \E q \in sent, k \in FrameKinds : ServerRespond(q, k)

Spec == Init /\ [][Next]_vars

\* The address list of the long-running node below.
OneAddr == <<1>>

\* A node that is connected once and never shut down, serving more calls
\* than run at once, so that the id counter wraps.
NextRun ==
    \/ ConnectBegin(OneAddr)
    \/ ConnectDial("ok")
    \/ ConnectCheck
    \/ ConnectSpawn
    \/ ConnectReturn
    \/ ListenPoll
    \/ ListenFrame
    \/ ListenDeliver
    \/ \E c \in Calls :
         \/ ReqLoad(c)
         \/ ReqInc(c)
         \/ ReqRegister(c)
         \/ ReqSendFail(c)
         \/ ReqSend(c)
         \/ ReqSelect(c)
         \/ ReqTimeout(c)
         \/ ReqCleanup(c)
    \/ \E q \in sent, k \in FrameKinds : ServerRespond(q, k)

SpecRun == Init /\ [][NextRun]_vars

\* Connect and Shutdown alone: no request is made.
NextConnect ==
    \/ ConnectRejected
    \/ \E list \in AddrLists : ConnectBegin(list)
    \/ \E o \in Outcomes : ConnectDial(o)
    \/ ConnectCheck
    \/ ConnectSpawn
    \/ ConnectReturn
    \/ ShutdownCall
    \/ ShutdownReturn
    \/ TeardownShutdown
    \/ TeardownDone
    \/ RelayExit
    \/ ListenPoll
    \/ ListenStop

SpecConnect == Init /\ [][NextConnect]_vars

\* A node with one caller whose transport reports errors.
NextErrors ==
    \/ ConnectBegin(OneAddr)
    \/ ConnectDial("ok")
    \/ ConnectCheck
    \/ ConnectSpawn
    \/ ConnectReturn
    \/ ShutdownCall
    \/ ShutdownReturn
    \/ TeardownShutdown
    \/ TeardownDone
    \/ TransportError
    \/ RelayReport
    \/ RelayExit
    \/ ListenPoll
    \/ ListenStop
    \/ ListenFrame
    \/ ListenDeliver
    \/ Request(1)
    \/ \E q \in sent, k \in FrameKinds : ServerRespond(q, k)

SpecErrors == Init /\ [][NextErrors]_vars
\* A node with one caller and a server that answers with a frame of any
\* body and also sends frames that carry no id, which decode to id 0.
NextFrames ==
    \/ ConnectBegin(OneAddr)
    \/ ConnectDial("ok")
    \/ ConnectCheck
    \/ ConnectSpawn
    \/ ConnectReturn
    \/ ShutdownCall
    \/ ShutdownReturn
    \/ TeardownShutdown
    \/ TeardownDone
    \/ RelayExit
    \/ ListenPoll
    \/ ListenStop
    \/ ListenFrame
    \/ ListenDeliver
    \/ Request(1)
    \/ \E q \in sent, k \in AllBodies : ServerRespond(q, k)
    \/ ServerPush(0, "", OkBody)

SpecFrames == Init /\ [][NextFrames]_vars
\* A node without callers whose server sends notifications to subscribers.
NextPush ==
    \/ ConnectBegin(OneAddr)
    \/ ConnectDial("ok")
    \/ ConnectCheck
    \/ ConnectSpawn
    \/ ConnectReturn
    \/ ListenPoll
    \/ ListenFrame
    \/ \E s \in Subs, m \in Methods : Subscribe(s, m)
    \/ \E s \in Subs : SubRead(s)
    \/ \E m \in Methods \cup {""}, k \in FrameKinds : ServerPush(0, m, k)

SpecPush == Init /\ [][NextPush]_vars
\* Goroutines calling Get on one DiskStore.
NextDisk ==
    \/ \E ok \in BOOLEAN : GetCall(ok)
    \/ GetLoad
    \/ GetAdd
    \/ GetChecked

SpecDisk == Init /\ [][NextDisk]_vars

\* A runnable goroutine is eventually scheduled: a call whose select has
\* taken the case of line 424 executes its return.
FairSpec == Spec /\ \A c \in Calls : WF_vars(ReqReturnShutdown(c))

\* ---------------------------------------------------------------- claims
\* The calls that have read their id.
Loaded == {c \in Calls : id[c] # NoID}

\* The number of n.nextID.Inc() calls made so far.
Incs == Cardinality({c \in Calls : pc[c] \notin {"idle", "inc"}})

\* C1: while the id counter has not wrapped, no two request() calls hold the
\* same correlation id.
C1_DistinctIds ==
    Incs < IdSpace =>
        \A c, d \in Loaded : c # d => id[c] # id[d]

\* C2: a call resolved by a response holds the response built from the frame
\* that answers that very call.
C2_OwnResponse ==
    \A c \in Calls : branch[c] = "response" => r[c].ans = c

\* C3: once a call has returned through the response, timeout or shutdown
\* branch, the pending map no longer holds the entry the call registered.
C3_EntryRemoved ==
    \A c \in Calls :
        (pc[c] = "done" /\ branch[c] \in {"response", "timeout", "shutdown"})
            => handlers[id[c]] # c

\* C4: a call whose timer fires while it waits (no frame was handed to it)
\* returns ErrTimeout, and when it returns the pending map has no entry for
\* its id.
C4_TimeoutReturns ==
    [][\A c \in Calls :
         (pc[c] = "resolved" /\ branch[c] = "timeout" /\ pc'[c] = "done")
            => (ret'[c] = "ErrTimeout" /\ handlers'[id[c]] = NoChan)]_vars

C4_Witness ==
    \E c \in Calls :
        /\ pc[c] = "done"
        /\ branch[c] = "timeout"
        /\ ret[c] = "ErrTimeout"
        /\ handlers[id[c]] = NoChan

\* C5: a call that was issued the id of an earlier call after that call had
\* timed out (the counter wrapped in between) is never handed the frame that
\* answers the earlier call.
C5_NoStaleDelivery ==
    \A c, d \in Calls :
        (c \in before[d] /\ branch[c] = "timeout" /\ id[c] = id[d]
            /\ branch[d] = "response")
            => r[d].ans # c

\* C6: every call that was parked in its select when Shutdown closed the
\* group's channel eventually returns nil through the shutdown case.
C6_ShutdownUnblocks ==
    \A c \in Calls :
        (c \in blocked) ~> (pc[c] = "done" /\ branch[c] = "shutdown" /\ ret[c] = "nil")

C6_Witness ==
    \E c \in blocked : pc[c] = "done" /\ branch[c] = "shutdown" /\ ret[c] = "nil"

\* C7: when Shutdown has returned on a node that had a transport, the three
\* goroutines have exited and the transport has been torn down.
C7_ShutdownJoins ==
    (shutPc = "returned" /\ shutAddr # NoTransport) =>
        /\ teardownPc = "exited"
        /\ relayPc = "exited"
        /\ listenPc = "exited"
        /\ torn

C7_Witness ==
    /\ shutPc = "returned"
    /\ shutAddr # NoTransport
    /\ \E c \in Calls : pc[c] = "done" /\ branch[c] = "response"

\* C8: a Connect call that starts on a node holding a transport returns
\* ErrNodeConnected, dials nothing, and its steps leave the node and its
\* goroutines as they were.
C8_SecondConnectRejected ==
    [][/\ (connPc = "idle" /\ connPc' # "idle" /\ transport # NoTransport) =>
            /\ connPc' = "return"
            /\ connErr' = "ErrNodeConnected"
            /\ dialled' = <<>>
            /\ UNCHANGED <<nodeVars, workerVars>>
       /\ (connPc = "return" /\ connErr = "ErrNodeConnected" /\ connPc' # "return") =>
            /\ connPc' = "idle"
            /\ UNCHANGED <<nodeVars, workerVars>>]_vars

C8_Witness ==
    /\ connPc = "return"
    /\ connErr = "ErrNodeConnected"
    /\ transport # NoTransport
    /\ grpWg = 3

\* The outcomes after which Connect goes on to the next address.
SkipOutcomes == {"timeout", "nosuchhost"}

\* C9: when Connect returns from its loop, it has dialled a prefix of the
\* shuffled list in order; every address before the last one dialled failed
\* with a timeout or DNS failure; it stopped short of the end of the list only
\* at a success or at another error; and it returns accordingly.
C9_ConnectWalk ==
    (connPc = "return" /\ connErr # "ErrNodeConnected") =>
        LET n == Len(dialled) IN
        /\ n >= 1
        /\ n <= Len(addrs)
        /\ \A j \in 1..n : dialled[j][1] = addrs[j]
        /\ \A j \in 1..(n - 1) : dialled[j][2] \in SkipOutcomes
        /\ n < Len(addrs) => dialled[n][2] \notin SkipOutcomes
        /\ dialled[n][2] = "ok" => connErr = "nil"
        /\ dialled[n][2] = "other" => connErr = "ErrOther"
        /\ dialled[n][2] \in SkipOutcomes => connErr = "ErrConnectFailed"

C9_Witness ==
    /\ connPc = "return"
    /\ Len(addrs) = MaxAddrs
    /\ Len(dialled) = 1
    /\ dialled[1][2] = "other"

\* Every address of the list was dialled and failed with a timeout or a DNS
\* failure.
AllSkipped ==
    /\ Len(dialled) = Len(addrs)
    /\ \A j \in 1..Len(dialled) : dialled[j][2] \in SkipOutcomes

\* C10: a Connect whose every address fails with a timeout or DNS failure
\* returns ErrConnectFailed and leaves the node without a transport and
\* without goroutines, so that the guard of a later Connect passes.
C10_ConnectFailed ==
    (connPc = "return" /\ connErr # "ErrNodeConnected" /\ AllSkipped) =>
        /\ connErr = "ErrConnectFailed"
        /\ transport = NoTransport
        /\ grpWg = 0
        /\ teardownPc = "none" /\ relayPc = "none" /\ listenPc = "none"

C10_Witness ==
    /\ connPc = "return"
    /\ connErr = "ErrConnectFailed"
    /\ Len(addrs) = MaxAddrs
    /\ AllSkipped

\* Channel s is in the list registered for method m.
RegisteredFor(s, m) ==
    /\ m \in Methods
    /\ \E i \in 1..Len(pushHandlers[m]) : pushHandlers[m][i] = s

\* C11: the receive loop always takes the next frame, whatever the state of
\* the subscriber channels; in the step that takes a frame with method M, a
\* channel registered for M that has room gets the response appended, every
\* other channel (full, registered for another method, or not registered) is
\* left as it is, and the loop goes on.
C11_FanOut ==
    /\ []((listenPc = "recv" /\ wire # <<>>) => ENABLED ListenFrame)
    /\ [][(wire # <<>> /\ wire' = Tail(wire)) =>
            /\ listenPc' \in {"poll", "deliver"}
            /\ \A s \in Subs :
                 IF /\ Head(wire).method # ""
                    /\ RegisteredFor(s, Head(wire).method)
                    /\ Len(subChan[s]) < SubCap
                   THEN subChan'[s] = Append(subChan[s], Classify(Head(wire)))
                   ELSE subChan'[s] = subChan[s]]_vars

C11_Witness ==
    /\ RegisteredFor(1, "M")
    /\ RegisteredFor(2, "M")
    /\ wire = <<>>
    /\ pushed = 2
    /\ subChan[1] # <<>>
    /\ subChan[2] # <<>>
    /\ subChan[1][1].from # subChan[2][1].from

\* The frame in the first envelope that carries the code and the message a
\* frame in the second envelope carries in its inner object.
SameInA(b) == [shape |-> "A", code |-> b.ncode, msg |-> b.nmsg, ncode |-> 0, nmsg |-> ""]

\* What request() reads of a response.
Seen(resp) == [kind |-> resp.kind, code |-> resp.code, msg |-> resp.msg]

\* C12: a call resolved by a frame in the second envelope holds the response
\* the same frame in the first envelope gives, a server error with the inner
\* code and message when the inner message is not empty, and returns that
\* error, removing its entry.
C12_ShapesAgree ==
    \A c \in Calls :
        (branch[c] = "response" /\ r[c].from.shape = "B") =>
            /\ Seen(r[c]) = Seen(Classify([id |-> id[c], ans |-> c, method |-> "",
                                           body |-> SameInA(r[c].from)]))
            /\ r[c].from.nmsg # "" =>
                 /\ r[c].kind = "err"
                 /\ r[c].code = r[c].from.ncode
                 /\ r[c].msg = r[c].from.nmsg
            /\ pc[c] = "done" =>
                 /\ ret[c] = ErrorOf(Classify([id |-> id[c], ans |-> c, method |-> "",
                                               body |-> SameInA(r[c].from)]))
                 /\ handlers[id[c]] = NoChan

C12_Witness ==
    \E c \in Calls :
        /\ pc[c] = "done"
        /\ branch[c] = "response"
        /\ r[c].from.shape = "B"
        /\ r[c].from.ncode = 7
        /\ r[c].from.nmsg = "m"
        /\ r[c].kind = "err"
        /\ r[c].code = 7
        /\ r[c].msg = "m"
        /\ ret[c] = "ErrServer"

\* C13: a call whose Send failed has returned the transport's error, and the
\* pending map holds no entry registered by that call.
C13_SendFailScoped ==
    \A c \in Calls :
        (pc[c] = "done" /\ branch[c] = "sendfail")
            => (ret[c] = "ErrSend" /\ handlers[id[c]] # c)

\* C14: after Shutdown has returned on a node that held no transport, the
\* node is as a new node is: the group's channel is not closed, and the
\* goroutines a later Connect starts have not exited nor torn the transport
\* down.
C14_IdleShutdownNoOp ==
    (shutPc = "returned" /\ shutAddr = NoTransport) =>
        /\ ~grpClosed
        /\ ~torn
        /\ teardownPc \notin {"closing", "exited"}
        /\ relayPc # "exited"
        /\ listenPc # "exited"

\* C15: a call that reads its id after every call started before it has
\* returned is the k-th call and holds id k - 1 (in the width of the counter),
\* the first call holding 0; and the frame a call hands to the transport
\* carries the id the call holds.
C15_SequentialIds ==
    /\ \A c \in Loaded : before[c] = 1..(c - 1) => id[c] = (c - 1) % IdSpace
    /\ \A q \in sent : q.id = id[q.ans]
    /\ \A i \in 1..Len(wire) : wire[i].ans # 0 => wire[i].id = id[wire[i].ans]

C15_Witness ==
    /\ id[1] = 0
    /\ before[2] = {1}
    /\ id[2] = 1
    /\ [id |-> 1, ans |-> 2] \in sent

\* C16: no response built from a frame that decodes under neither envelope
\* is handed to a call, waits in a call's channel or in a subscriber's
\* channel, or is returned by a call.
C16_UndecodableDiscarded ==
    /\ \A c \in Calls :
         /\ r[c].kind # "decode"
         /\ \A i \in 1..Len(chan[c]) : chan[c][i].kind # "decode"
         /\ ret[c] # "ErrDecode"
    /\ \A s \in Subs : \A i \in 1..Len(subChan[s]) : subChan[s][i].kind # "decode"

\* C17: a call resolved by a frame in the first envelope holds a server
\* error exactly when the frame's error has a code other than zero or a
\* message, and then returns it.
C17_ErrorWhenNonEmpty ==
    \A c \in Calls :
        (branch[c] = "response" /\ r[c].from.shape = "A") =>
            /\ (r[c].kind = "err") <=> (r[c].from.code # 0 \/ r[c].from.msg # "")
            /\ (pc[c] = "done" /\ (r[c].from.code # 0 \/ r[c].from.msg # ""))
                 => ret[c] = "ErrServer"

\* C18: while a call is about to hand its frame to the transport, or has
\* handed it over and has not resolved yet, the pending map holds a channel
\* under the call's id, so a frame with that id finds a waiter.
C18_RegisteredBeforeSend ==
    \A c \in Calls : pc[c] \in {"send", "select", "parked"} => handlers[id[c]] # NoChan

\* C19: a step that takes an error off the transport's error stream only
\* logs it: the group's channel, the transport, the pending map, the
\* goroutines and the calls are as before; and as long as Shutdown has not
\* been called the channel is open, the transport is up and no goroutine has
\* exited.
C19_ErrorsNotFatal ==
    /\ [](shutPc = "idle" =>
            /\ ~grpClosed
            /\ ~torn
            /\ teardownPc \notin {"closing", "exited"}
            /\ relayPc # "exited"
            /\ listenPc # "exited")
    /\ [][logged' # logged =>
            /\ logged' = logged + 1
            /\ UNCHANGED <<nodeVars, shutVars, workerVars, callVars>>]_vars

C19_Witness ==
    /\ logged = MaxErrs
    /\ shutPc = "idle"
    /\ relayPc = "wait"
    /\ listenPc = "recv"
    /\ ~grpClosed
    /\ ~torn
    /\ pc[1] = "parked"
    /\ handlers[id[1]] = 1

\* C20: while Shutdown waits, the receive loop is not blocked in the send of
\* line 377 on a full channel whose request() call has returned.
C20_ListenNeverStuck ==
    ~ /\ shutPc = "wait"
      /\ listenPc = "deliver"
      /\ chan[lisC] # <<>>
      /\ pc[lisC] = "done"

\* C21: the counter of blob checks in progress never exceeds
\* maxConcurrentChecks, and it is zero when no Get call is running.
C21_ChecksBounded ==
    /\ concurrentChecks <= maxConcurrentChecks
    /\ Running = 0 => concurrentChecks = 0

====
